---- MODULE Spec2Model ----
(***************************************************************************)
(* Model of the dysk control-plane client (pkg/client/client.go).          *)
(*                                                                         *)
(* Go strings are sequences of one-character strings.  Byte quantities     *)
(* are counted in 512-byte units (every size the client handles is a       *)
(* multiple of 512: page blobs are 512-aligned and the VHD footer is 512   *)
(* bytes), so that the gigabyte arithmetic stays inside TLC's integers.    *)
(* A uint64 is represented by its two's-complement reading: n >= 0 stands  *)
(* for n, and -k (k > 0) stands for 2^64 - k.                              *)
(***************************************************************************)
EXTENDS Integers, Sequences, FiniteSets, TLC

(***************************************************************************)
(* Characters and strings                                                  *)
(***************************************************************************)
NL == "\n"
NUL == "NUL"
Digits == <<"0", "1", "2", "3", "4", "5", "6", "7", "8", "9">>
DigitSet == {Digits[i] : i \in 1..10}
DigitVal(c) == (CHOOSE i \in 1..10 : Digits[i] = c) - 1

Rep(c, n) == [i \in 1..n |-> c]

\* strings.Contains(s, c) for a one-character c
Contains(s, c) == \E i \in 1..Len(s) : s[i] = c

\* strings.Index(s, "\n"): 0-based index of the first newline, -1 if none
IndexNL(s) ==
    IF Contains(s, NL)
    THEN (CHOOSE i \in 1..Len(s) : s[i] = NL /\ \A j \in 1..(i - 1) : s[j] # NL) - 1
    ELSE -1

\* the positions of the newlines of s, in order
NLPos(s) == SelectSeq([i \in 1..Len(s) |-> i], LAMBDA i : s[i] = NL)

\* strings.Split(s, "\n"): the segments between newlines (always at least one)
Split(s) ==
    LET pos == NLPos(s)
        n == Len(pos)
    IN  [k \in 1..(n + 1) |->
            SubSeq(s, IF k = 1 THEN 1 ELSE pos[k - 1] + 1,
                      IF k = n + 1 THEN Len(s) ELSE pos[k] - 1)]

RECURSIVE Join(_)
\* the segments of ss, each followed by a newline
Join(ss) == IF ss = <<>> THEN <<>> ELSE Head(ss) \o <<NL>> \o Join(Tail(ss))

(***************************************************************************)
(* Numbers: fmt %d and strconv                                             *)
(***************************************************************************)
RECURSIVE FmtNat(_)
FmtNat(n) == IF n < 10 THEN <<Digits[n + 1]>> ELSE FmtNat(n \div 10) \o <<Digits[(n % 10) + 1]>>

RECURSIVE ParseNat(_)
\* value of a non-empty all-digit string of at most 9 digits
ParseNat(s) == IF s = <<>> THEN 0 ELSE ParseNat(SubSeq(s, 1, Len(s) - 1)) * 10 + DigitVal(s[Len(s)])

AllDigits(s) == s # <<>> /\ \A i \in 1..Len(s) : s[i] \in DigitSet

\* 2^64 = 18446744073709551616, split as a high part and nine low digits
U64High == <<"1", "8", "4", "4", "6", "7", "4", "4", "0", "7", "3">>
U64Low == 709551616
MaxUint64 == -1

Pad9(s) == Rep("0", 9 - Len(s)) \o s

\* fmt "%d" of a uint64
FmtUint64(u) == IF u >= 0 THEN FmtNat(u) ELSE U64High \o Pad9(FmtNat(U64Low + u))
\* fmt "%d" of an int
FmtInt(n) == IF n >= 0 THEN FmtNat(n) ELSE <<"-">> \o FmtNat(-n)

\* uint64(x) of an int x
ToUint64(x) == x

RECURSIVE StripZeros(_)
StripZeros(s) == IF Len(s) > 1 /\ Head(s) = "0" THEN StripZeros(Tail(s)) ELSE s

\* strconv.ParseUint(s, 10, 64): [v, err]; v is 0 on a syntax error and the
\* maximum on a range error
ParseUint(s) ==
    IF ~AllDigits(s) THEN [v |-> 0, err |-> TRUE]
    ELSE LET z == StripZeros(s)
         IN  CASE Len(z) <= 9 -> [v |-> ParseNat(z), err |-> FALSE]
               [] Len(z) > 20 -> [v |-> MaxUint64, err |-> TRUE]
               [] Len(z) = 20 /\ SubSeq(z, 1, 11) = U64High ->
                     LET low == ParseNat(SubSeq(z, 12, 20))
                     IN  IF low >= U64Low THEN [v |-> MaxUint64, err |-> TRUE]
                         ELSE [v |-> low - U64Low, err |-> FALSE]

\* strconv.ParseInt(s, 10, 64): [v, err]
ParseInt(s) ==
    LET neg == s # <<>> /\ Head(s) = "-"
        body == IF s # <<>> /\ Head(s) \in {"-", "+"} THEN Tail(s) ELSE s
    IN  IF ~AllDigits(body) THEN [v |-> 0, err |-> TRUE]
        ELSE LET z == StripZeros(body)
             IN  CASE Len(z) <= 9 -> [v |-> IF neg THEN -ParseNat(z) ELSE ParseNat(z), err |-> FALSE]
                   [] Len(z) > 19 -> [v |-> 0, err |-> TRUE]

(***************************************************************************)
(* Disk descriptor and wire codec                                          *)
(***************************************************************************)
ReadOnly == <<"R">>
ReadWrite == <<"R", "W">>

NoDysk ==
    [Type |-> <<>>, Name |-> <<>>, sectorCount |-> 0, SizeGB |-> 0,
     AccountName |-> <<>>, AccountKey |-> <<>>, Path |-> <<>>, host |-> <<>>,
     ip |-> <<>>, LeaseId |-> <<>>, Vhd |-> FALSE, Major |-> 0, Minor |-> 0]

\* a slip in the encoder: the vhd flag is always written as 0
dysk2string_flagless(d) ==
    Join(<<d.Type, d.Name, FmtUint64(d.sectorCount), d.AccountName, d.AccountKey,
           d.Path, d.host, d.ip, d.LeaseId, FmtInt(0)>>)

\* dysk2string: type, name, sectorCount, accountName, accountKey, path, host,
\* ip, leaseId, vhd flag, each followed by a newline
dysk2string(d) ==
    LET is_vhd == IF d.Vhd THEN 1 ELSE 0
    IN  Join(<<d.Type, d.Name, FmtUint64(d.sectorCount), d.AccountName, d.AccountKey,
               d.Path, d.host, d.ip, d.LeaseId, FmtInt(is_vhd)>>)

\* string2dysk: [panic, err, d].  Indexing split[i] beyond the segments
\* aborts the process; the reads happen in the order 2, 9, 10, 11 (0-based).
string2dysk(asstring) ==
    LET split == Split(asstring)
        n == Len(split)
        fail(p) == [panic |-> p, err |-> ~p, d |-> NoDysk]
    IN  IF n < 3 THEN fail(TRUE)
        ELSE LET sectorCount == ParseUint(split[3]).v
             IN  IF n < 10 THEN fail(TRUE)
                 ELSE LET major == ParseInt(split[10])
                      IN  IF major.err THEN fail(FALSE)
                          ELSE IF n < 11 THEN fail(TRUE)
                          ELSE LET minor == ParseInt(split[11])
                               IN  IF minor.err THEN fail(FALSE)
                                   ELSE IF n < 12 THEN fail(TRUE)
                                   ELSE LET is_vhd == ParseInt(split[12]).v
                                        IN  [panic |-> FALSE, err |-> FALSE,
                                             d |-> [Type |-> split[1],
                                                    Name |-> split[2],
                                                    sectorCount |-> sectorCount,
                                                    SizeGB |-> 0,
                                                    AccountName |-> split[4],
                                                    AccountKey |-> split[5],
                                                    Path |-> split[6],
                                                    host |-> split[7],
                                                    ip |-> split[8],
                                                    LeaseId |-> split[9],
                                                    Vhd |-> (is_vhd = 1),
                                                    Major |-> major.v,
                                                    Minor |-> minor.v]]

(***************************************************************************)
(* Sizes.  One unit is 512 bytes (one sector).                             *)
(***************************************************************************)
\* 1024 * 1024 * 1024 bytes, in sectors
SectorsPerGB == 2097152
\* vhd.VHD_HEADER_SIZE (512 bytes), in sectors
VHD_HEADER_SIZE == 1

(***************************************************************************)
(* Inputs are drawn from the strings below.                                *)
(***************************************************************************)
MaxNameLen == 32
MaxAccountLen == 256
MaxKeyLen == 128
MaxPathLen == 1024
MaxHostLen == 512
MaxLeaseLen == 64

B64Alphabet ==
    {"A", "B", "C", "D", "E", "F", "G", "H", "I", "J", "K", "L", "M", "N", "O", "P", "Q",
     "R", "S", "T", "U", "V", "W", "X", "Y", "Z", "a", "b", "c", "d", "e", "f", "g", "h",
     "i", "j", "k", "l", "m", "n", "o", "p", "q", "r", "s", "t", "u", "v", "w", "x", "y",
     "z", "0", "1", "2", "3", "4", "5", "6", "7", "8", "9", "+", "/"}

\* base64.StdEncoding.DecodeString(s) returns no error: whole quanta of four
\* characters of the alphabet, the last one padded with at most two "="
\* (carriage returns and newlines are skipped by the decoder)
Base64Ok(s) ==
    LET t == SelectSeq(s, LAMBDA ch : ch \notin {NL, "\r"})
        n == Len(t)
        pad == IF n >= 2 /\ t[n] = "=" /\ t[n - 1] = "=" THEN 2
               ELSE IF n >= 1 /\ t[n] = "=" THEN 1 ELSE 0
    IN  /\ n % 4 = 0
        /\ \A i \in 1..(n - pad) : t[i] \in B64Alphabet

(***************************************************************************)
(* path.Dir and path.Base, for paths without "." or ".." elements and      *)
(* without doubled slashes                                                 *)
(***************************************************************************)
LastSlash(p) == IF Contains(p, "/") THEN CHOOSE i \in 1..Len(p) : p[i] = "/" /\ \A j \in (i + 1)..Len(p) : p[j] # "/" ELSE 0

RECURSIVE StripSlashes(_)
StripSlashes(p) == IF Len(p) > 0 /\ p[Len(p)] = "/" THEN StripSlashes(SubSeq(p, 1, Len(p) - 1)) ELSE p

PathDir(p) ==
    LET dir == SubSeq(p, 1, LastSlash(p))
    IN  IF dir = <<>> THEN <<".">>
        ELSE IF StripSlashes(dir) = <<>> THEN <<"/">>
        ELSE StripSlashes(dir)

PathBase(p) ==
    IF p = <<>> THEN <<".">>
    ELSE LET q == StripSlashes(p)
         IN  IF q = <<>> THEN <<"/">> ELSE SubSeq(q, LastSlash(q) + 1, Len(q))

(***************************************************************************)
(* The object store (external).  It holds at most one container with at    *)
(* most one blob; empty names mean absent.  ops is the history of the      *)
(* calls that changed or were made against it by the provisioner.          *)
(***************************************************************************)
BlobTypePage == "PageBlob"
BlobTypeBlock == "BlockBlob"

NoStore ==
    [cname |-> <<>>, bname |-> <<>>, size |-> 0, btype |-> BlobTypePage,
     lease |-> <<>>, header |-> FALSE, meta |-> FALSE]

ContainerExists(st, cn) == cn # <<>> /\ st.cname = cn
BlobExists(st, cn, bn) == ContainerExists(st, cn) /\ bn # <<>> /\ st.bname = bn
\* a request carrying lease id l is honoured by the store
LeaseReadOk(st, l) == l = <<>> \/ l = st.lease
LeaseWriteOk(st, l) == l = st.lease

\* the calls that may fail for reasons outside the client (network, service)
MountSites == {"svc", "props1", "lookup", "cexists", "bexists", "props2", "meta"}
ProvisionSites == {"svc", "mkcontainer", "putblob", "writerange", "lease"}
MaxFaults == 1
Envs(sites) == {F \in SUBSET sites : Cardinality(F) <= MaxFaults}

\* one entry of a caller's I/O history: the call, and for an ioctl its command
\* code, payload, file and the kind of answer the driver gave
Ev(op) == [op |-> op, cmd |-> 0, arg |-> <<>>, h |-> 0, n |-> 0, reply |-> ""]

(***************************************************************************)
(* Lifecycle validator                                                     *)
(***************************************************************************)
ResolvedIP == <<"1", "0", ".", "0", ".", "0", ".", "4">>
HostSuffix == <<".", "b", "l", "o", "b", ".", "c", "o", "r", "e", ".", "w", "i", "n", "d", "o", "w", "s", ".", "n", "e", "t">>

\* a lease validation that probes the write lease of a ReadOnly disk too
validateLease_probeAlways(c, d, st, F) ==
    LET cn == Tail(PathDir(d.Path))
        bn == PathBase(d.Path)
        r(e, s, ev) == [err |-> e, st |-> s, ev |-> ev]
        e1 == <<Ev("Container.Exists")>>
        e2 == e1 \o <<Ev("Blob.Exists")>>
        e3 == e2 \o <<[Ev("GetProperties") EXCEPT !.arg = d.LeaseId]>>
        e4 == e3 \o <<[Ev("SetMetadata") EXCEPT !.arg = d.LeaseId]>>
    IN  IF c.blobClient = "unset" \/ "cexists" \in F THEN r("store: Container.Exists", st, e1)
        ELSE IF ~ContainerExists(st, cn) THEN r("Container does not exist", st, e1)
        ELSE IF "bexists" \in F THEN r("store: Blob.Exists", st, e2)
        ELSE IF ~BlobExists(st, cn, bn) THEN r("Blob does not exist", st, e2)
        ELSE IF "props2" \in F \/ ~LeaseReadOk(st, d.LeaseId) THEN r("store: GetProperties", st, e3)
        ELSE IF st.btype # BlobTypePage THEN r("This blob is not a page blob", st, e3)
        ELSE IF "meta" \in F \/ ~LeaseWriteOk(st, d.LeaseId) THEN r("store: SetMetadata", st, e4)
        ELSE r("nil", [st EXCEPT !.meta = TRUE], e4)

\* validateLease: [err, st, ev]
validateLease(c, d, st, F) ==
    LET cn == Tail(PathDir(d.Path))
        bn == PathBase(d.Path)
        r(e, s, ev) == [err |-> e, st |-> s, ev |-> ev]
        e1 == <<Ev("Container.Exists")>>
        e2 == e1 \o <<Ev("Blob.Exists")>>
        e3 == e2 \o <<[Ev("GetProperties") EXCEPT !.arg = d.LeaseId]>>
        e4 == e3 \o <<[Ev("SetMetadata") EXCEPT !.arg = d.LeaseId]>>
    IN  IF c.blobClient = "unset" \/ "cexists" \in F THEN r("store: Container.Exists", st, e1)
        ELSE IF ~ContainerExists(st, cn) THEN r("Container does not exist", st, e1)
        ELSE IF "bexists" \in F THEN r("store: Blob.Exists", st, e2)
        ELSE IF ~BlobExists(st, cn, bn) THEN r("Blob does not exist", st, e2)
        ELSE IF "props2" \in F \/ ~LeaseReadOk(st, d.LeaseId) THEN r("store: GetProperties", st, e3)
        ELSE IF st.btype # BlobTypePage THEN r("This blob is not a page blob", st, e3)
        ELSE IF d.Type = ReadOnly THEN r("nil", st, e3)
        ELSE IF "meta" \in F \/ ~LeaseWriteOk(st, d.LeaseId) THEN r("store: SetMetadata", st, e4)
        ELSE r("nil", [st EXCEPT !.meta = TRUE], e4)

\* a validator that keeps a host the caller supplied
derivedHost_keepSupplied(d) == IF 0 < Len(d.host) THEN d.host ELSE d.AccountName \o HostSuffix

\* the host the validator leaves in the descriptor
derivedHost(d) == d.AccountName \o HostSuffix

\* a validator that looks at the leaseId before the other fields
validateFields_leaseFirst(d) ==
    LET r(e) == [err |-> e, d |-> d]
    IN  IF Len(d.LeaseId) = 0 \/ MaxLeaseLen < Len(d.LeaseId)
        THEN r("Invalid Lease Id. Must be <= 32")
        ELSE IF Len(d.Type) = 0 \/ (d.Type # ReadOnly /\ d.Type # ReadWrite)
        THEN r("Invalid type. Must be R or RW")
        ELSE IF Len(d.Name) = 0 \/ MaxNameLen < Len(d.Name)
        THEN r("Invalid name. Only max of(32) chars")
        ELSE IF Contains(d.Name, "/") \/ Contains(d.Name, "\\") \/ Contains(d.Name, ".")
        THEN r("Invalid name. Must not contain \\ / .")
        ELSE IF d.sectorCount = 0
        THEN r("Invalid Sector count.")
        ELSE IF Len(d.AccountName) = 0 \/ MaxAccountLen < Len(d.AccountName)
        THEN r("Invalid Account name. Must be <= than 256")
        ELSE IF Len(d.AccountKey) = 0 \/ MaxKeyLen < Len(d.AccountKey)
        THEN r("Invalid AccountKey. Must be <= 64")
        ELSE IF Len(d.Path) = 0 \/ MaxPathLen < Len(d.Path)
        THEN r("Invalid path. Must be <= 1024")
        ELSE IF 0 < Len(d.host) /\ MaxHostLen < Len(d.host)
        THEN r("Invalid host. Must be <= 512")
        ELSE [err |-> "nil", d |-> [d EXCEPT !.host = d.AccountName \o HostSuffix]]

\* validateDysk, the checks of the fields: [err, d]
validateFields(d) ==
    LET r(e) == [err |-> e, d |-> d]
    IN  IF Len(d.Type) = 0 \/ (d.Type # ReadOnly /\ d.Type # ReadWrite)
        THEN r("Invalid type. Must be R or RW")
        ELSE IF Len(d.Name) = 0 \/ MaxNameLen < Len(d.Name)
        THEN r("Invalid name. Only max of(32) chars")
        ELSE IF Contains(d.Name, "/") \/ Contains(d.Name, "\\") \/ Contains(d.Name, ".")
        THEN r("Invalid name. Must not contain \\ / .")
        ELSE IF d.sectorCount = 0
        THEN r("Invalid Sector count.")
        ELSE IF Len(d.AccountName) = 0 \/ MaxAccountLen < Len(d.AccountName)
        THEN r("Invalid Account name. Must be <= than 256")
        ELSE IF Len(d.AccountKey) = 0 \/ MaxKeyLen < Len(d.AccountKey)
        THEN r("Invalid AccountKey. Must be <= 64")
        \* the base64 decode error is built but not returned
        ELSE IF Len(d.Path) = 0 \/ MaxPathLen < Len(d.Path)
        THEN r("Invalid path. Must be <= 1024")
        ELSE IF 0 < Len(d.host) /\ MaxHostLen < Len(d.host)
        THEN r("Invalid host. Must be <= 512")
        ELSE LET d1 == [d EXCEPT !.host = derivedHost(d)]
             IN  IF Len(d1.LeaseId) = 0 \/ MaxLeaseLen < Len(d1.LeaseId)
                 THEN [err |-> "Invalid Lease Id. Must be <= 32", d |-> d1]
                 ELSE [err |-> "nil", d |-> d1]

\* a validator that resolves the host before it checks the fields
validateDysk_lookupFirst(c, d, st, F) ==
    LET f == validateFields(d)
        look == <<[Ev("LookupIP") EXCEPT !.arg = f.d.host]>>
    IN  IF f.err # "nil" THEN [err |-> f.err, d |-> f.d, st |-> st, ev |-> look]
        ELSE IF "lookup" \in F
        THEN [err |-> "Failed to lookup ip for host", d |-> f.d, st |-> st, ev |-> look]
        ELSE LET d2 == [f.d EXCEPT !.ip = ResolvedIP]
                 v == validateLease(c, d2, st, F)
             IN  [err |-> v.err, d |-> d2, st |-> v.st, ev |-> look \o v.ev]

\* validateDysk: [err, d, st, ev]
validateDysk(c, d, st, F) ==
    LET f == validateFields(d)
        look == <<[Ev("LookupIP") EXCEPT !.arg = f.d.host]>>
    IN  IF f.err # "nil" THEN [err |-> f.err, d |-> f.d, st |-> st, ev |-> <<>>]
        ELSE IF "lookup" \in F
        THEN [err |-> "Failed to lookup ip for host", d |-> f.d, st |-> st, ev |-> look]
        ELSE LET d2 == [f.d EXCEPT !.ip = ResolvedIP]
                 v == validateLease(c, d2, st, F)
             IN  [err |-> v.err, d |-> d2, st |-> v.st, ev |-> look \o v.ev]

\* ensureBlobService: storage.NewBasicClient refuses an empty account, an
\* empty key and a key that is not base64; otherwise blobClient is set
ensureBlobService(c, F) ==
    IF \/ "svc" \in F
       \/ c.storageAccountName = <<>>
       \/ c.storageAccountKey = <<>>
       \/ ~Base64Ok(c.storageAccountKey)
    THEN [err |-> "storage.NewBasicClient", c |-> c]
    ELSE [err |-> "nil", c |-> [c EXCEPT !.blobClient = "set"]]

\* set_pageblob_size: [err, d, c, ev]
set_pageblob_size(c, d, st, F) ==
    LET c1 == ensureBlobService(c, F).c    \* its error is dropped
        cn == Tail(PathDir(d.Path))
        bn == PathBase(d.Path)
        ok == /\ c1.blobClient = "set"
              /\ "props1" \notin F
              /\ BlobExists(st, cn, bn)
              /\ LeaseReadOk(st, d.LeaseId)
        ev == <<[Ev("GetProperties") EXCEPT !.arg = d.LeaseId]>>
    IN  IF ~ok THEN [err |-> "store: GetProperties", d |-> d, c |-> c1, ev |-> ev]
        ELSE [err |-> "nil", d |-> [d EXCEPT !.SizeGB = st.size \div SectorsPerGB],
              c |-> c1, ev |-> ev]

\* a pre_mount that checks the fields and resolves the host, and leaves out
\* the lease validation
pre_mount_noLease(c, d, st, F) ==
    LET d0 == [d EXCEPT !.AccountName = c.storageAccountName,
                        !.AccountKey = c.storageAccountKey]
        s == set_pageblob_size(c, d0, st, F)
        d1 == s.d
        byteSize == IF d1.Vhd THEN d1.SizeGB * SectorsPerGB - VHD_HEADER_SIZE
                    ELSE d1.SizeGB * SectorsPerGB
        d2 == [d1 EXCEPT !.sectorCount = ToUint64(byteSize)]
        f == validateFields(d2)
        look == <<[Ev("LookupIP") EXCEPT !.arg = f.d.host]>>
    IN  IF f.err # "nil" THEN [err |-> f.err, d |-> f.d, c |-> s.c, st |-> st, ev |-> s.ev]
        ELSE IF "lookup" \in F
        THEN [err |-> "Failed to lookup ip for host", d |-> f.d, c |-> s.c, st |-> st,
              ev |-> s.ev \o look]
        ELSE [err |-> "nil", d |-> [f.d EXCEPT !.ip = ResolvedIP], c |-> s.c, st |-> st,
              ev |-> s.ev \o look]

\* pre_mount: [err, d, c, st, ev]
pre_mount(c, d, st, F) ==
    LET d0 == [d EXCEPT !.AccountName = c.storageAccountName,
                        !.AccountKey = c.storageAccountKey]
        s == set_pageblob_size(c, d0, st, F)    \* its error is dropped
        d1 == s.d
        byteSize == IF d1.Vhd THEN d1.SizeGB * SectorsPerGB - VHD_HEADER_SIZE
                    ELSE d1.SizeGB * SectorsPerGB
        d2 == [d1 EXCEPT !.sectorCount = ToUint64(byteSize)]
        v == validateDysk(s.c, d2, st, F)
    IN  [err |-> v.err, d |-> v.d, c |-> s.c, st |-> v.st, ev |-> s.ev \o v.ev]

\* a post_get that forgets the header
post_get_noHeader(d) == [d EXCEPT !.SizeGB = d.sectorCount \div SectorsPerGB]

\* post_get (for sector counts whose byte size does not wrap around 2^64)
post_get(d) ==
    LET byteSize == IF d.Vhd THEN d.sectorCount + VHD_HEADER_SIZE ELSE d.sectorCount
    IN  CASE byteSize >= 0 -> [d EXCEPT !.SizeGB = byteSize \div SectorsPerGB]

(***************************************************************************)
(* Transport: command buffers and the driver                               *)
(***************************************************************************)
IOCTLMOUNTDYSK == 9901
IOCTLUNMOUNTDYSK == 9902
IOCTGETDYSK == 9903
IOCTLISTDYYSKS == 9904
IOCTL_IN_OUT_MAX == 2048

\* a bufferize that leaves the padding out
bufferize_unpadded(s) ==
    IF IOCTL_IN_OUT_MAX - Len(s) < 0 THEN [panic |-> TRUE, b |-> <<>>]
    ELSE [panic |-> FALSE, b |-> s]

\* bufferize: [panic, b]; make() with a negative length aborts
bufferize(s) ==
    IF IOCTL_IN_OUT_MAX - Len(s) < 0 THEN [panic |-> TRUE, b |-> <<>>]
    ELSE [panic |-> FALSE, b |-> s \o Rep(NUL, IOCTL_IN_OUT_MAX - Len(s))]

\* a parseResponse that takes every status starting with ERR for a failure
parseResponse_prefix(bytes) ==
    LET firstlinebreak == IndexNL(bytes)
    IN  IF firstlinebreak < 0 THEN [panic |-> TRUE, is_error |-> FALSE, response |-> <<>>]
        ELSE [panic |-> FALSE,
              is_error |-> (firstlinebreak >= 3 /\ SubSeq(bytes, 1, 3) = <<"E", "R", "R">>),
              response |-> SubSeq(bytes, firstlinebreak + 2, Len(bytes))]

\* parseResponse: [panic, is_error, response]; slicing s[:-1] aborts
parseResponse(bytes) ==
    LET firstlinebreak == IndexNL(bytes)
    IN  IF firstlinebreak < 0 THEN [panic |-> TRUE, is_error |-> FALSE, response |-> <<>>]
        ELSE [panic |-> FALSE,
              is_error |-> (SubSeq(bytes, 1, firstlinebreak) = <<"E", "R", "R">>),
              response |-> SubSeq(bytes, firstlinebreak + 2, Len(bytes))]

\* "%s\n\x00" of a name
NameArg(name) == name \o <<NL, NUL>>

\* The driver (external) answers a command by filling the whole buffer.
\* Its descriptor text carries major and minor between leaseId and the vhd flag.
DriverDyskString(d) ==
    Join(<<d.Type, d.Name, FmtUint64(d.sectorCount), d.AccountName, d.AccountKey,
           d.Path, d.host, d.ip, d.LeaseId, FmtInt(d.Major), FmtInt(d.Minor),
           FmtInt(IF d.Vhd THEN 1 ELSE 0)>>)

StatusOK == <<"O", "K", NL>>
StatusERR == <<"E", "R", "R", NL>>
Fill(text) == text \o Rep(NUL, IOCTL_IN_OUT_MAX - Len(text))

DiskA == <<"d", "i", "s", "k", "A">>
DiskB == <<"d", "i", "s", "k", "B">>

\* what the driver knows about a mounted disk called name
DriverDysk(name, vhd) ==
    [NoDysk EXCEPT !.Type = ReadWrite, !.Name = name,
                   !.sectorCount = IF vhd THEN 2 * SectorsPerGB - VHD_HEADER_SIZE ELSE SectorsPerGB,
                   !.AccountName = <<"a", "c", "c", "t">>, !.AccountKey = <<"a", "2", "V", "5">>,
                   !.Path = <<"/", "c", "/", "b">>, !.host = <<"a", "c", "c", "t">> \o HostSuffix,
                   !.ip = ResolvedIP, !.LeaseId = <<"L", "1">>, !.Vhd = vhd,
                   !.Major = 252, !.Minor = 0]

MountReplies == {"errno", "ERR", "ok", "appended", "echo", "nonl", "short"}
GetReplies == {"errno", "ERR", "ok", "okvhd", "nodev", "nonl", "short"}
UnmountReplies == {"errno", "ERR", "ok", "nonl"}
ListReplies == {"errno", "ERR", "two", "twoblank", "none", "nonl"}

\* the buffer after a MOUNT of the descriptor whose encoding is req
MountReply(kind, d) ==
    CASE kind = "ERR" -> Fill(StatusERR \o <<"b", "a", "d", " ", "l", "e", "a", "s", "e", NL>>)
      [] kind = "ok" -> Fill(StatusOK \o DriverDyskString([d EXCEPT !.Major = 252, !.Minor = 0]))
      [] kind = "appended" -> Fill(StatusOK \o dysk2string(d) \o <<"2", "5", "2", NL, "0", NL>>)
      [] kind = "echo" -> Fill(StatusOK \o dysk2string(d))
      [] kind = "nonl" -> Rep("x", IOCTL_IN_OUT_MAX)
      [] kind = "short" -> Fill(StatusOK \o d.Type \o <<NL>> \o d.Name \o <<NL>>)

GetReply(kind, name) ==
    CASE kind = "ERR" -> Fill(StatusERR \o <<"n", "o", " ", "d", "i", "s", "k", NL>>)
      [] kind = "ok" -> Fill(StatusOK \o DriverDyskString(DriverDysk(name, FALSE)))
      [] kind = "okvhd" -> Fill(StatusOK \o DriverDyskString(DriverDysk(name, TRUE)))
      [] kind = "nodev" -> Fill(StatusOK \o dysk2string(DriverDysk(name, FALSE)))
      [] kind = "nonl" -> Rep("x", IOCTL_IN_OUT_MAX)
      [] kind = "short" -> Fill(StatusOK \o ReadWrite \o <<NL>> \o name \o <<NL>>)

UnmountReply(kind) ==
    CASE kind = "ERR" -> Fill(StatusERR \o <<"b", "u", "s", "y", NL>>)
      [] kind = "ok" -> Fill(StatusOK)
      [] kind = "nonl" -> Rep("x", IOCTL_IN_OUT_MAX)

ListReply(kind) ==
    CASE kind = "ERR" -> Fill(StatusERR \o <<"b", "u", "s", "y", NL>>)
      [] kind = "two" -> Fill(StatusOK \o DiskA \o <<NL>> \o DiskB \o <<NL>>)
      [] kind = "twoblank" -> Fill(StatusOK \o DiskA \o <<NL>> \o DiskB \o <<NL, NL>>)
      [] kind = "none" -> Fill(StatusOK)
      [] kind = "nonl" -> Rep("x", IOCTL_IN_OUT_MAX)

(***************************************************************************)
(* State                                                                   *)
(***************************************************************************)
VARIABLES
    c,          \* the dyskclient: account, key, blobClient, f
    files,      \* the os.File objects: "free", "open" or "closed"
    store,      \* the object store
    pc,         \* where each caller is in its operation
    loc,        \* each caller's locals
    log,        \* each caller's I/O during its current or last operation
    ret,        \* what each caller's last operation returned
    crashed,    \* the process was aborted by a run-time panic
    codec,      \* the wire codec applied to a descriptor on its own
    buf,        \* bufferize and parseResponse applied to a text on their own
    raced       \* an operation opened the device while another was running

vars == <<c, files, store, pc, loc, log, ret, crashed, codec, buf, raced>>

Threads == {"t1", "t2"}
MainThread == "t1"
NFiles == 3
FileIds == 1..NFiles
NilFile == 0

NoLoc ==
    [op |-> "", arg |-> NoDysk, d |-> NoDysk, name |-> <<>>, split |-> <<>>, idx |-> 0,
     dysks |-> <<>>, err |-> "nil", panic |-> FALSE]
NoRet == [op |-> "", err |-> "nil", arg |-> NoDysk, name |-> <<>>, d |-> NoDysk, dysks |-> <<>>, lease |-> <<>>, panic |-> FALSE]
NoCodec ==
    [stage |-> "off", d |-> NoDysk, wire |-> <<>>, stamped |-> FALSE, major |-> 0, minor |-> 0,
     out |-> [panic |-> FALSE, err |-> FALSE, d |-> NoDysk]]
NoBuf ==
    [stage |-> "off", s |-> <<>>, padded |-> FALSE, b |-> [panic |-> FALSE, b |-> <<>>],
     res |-> [panic |-> FALSE, is_error |-> FALSE, response |-> <<>>]]

(***************************************************************************)
(* The device file                                                         *)
(***************************************************************************)
\* an openDeviceFile that keeps the file the client already holds
openDeviceFile_keep(cl, fs, ok) ==
    LET new == CHOOSE h \in FileIds : fs[h] = "free" /\ \A g \in FileIds : fs[g] = "free" => h <= g
    IN  IF ~ok THEN [err |-> "open /dev/dysk", c |-> [cl EXCEPT !.f = NilFile], files |-> fs]
        ELSE IF cl.f # NilFile THEN [err |-> "nil", c |-> cl, files |-> fs]
        ELSE [err |-> "nil", c |-> [cl EXCEPT !.f = new], files |-> [fs EXCEPT ![new] = "open"]]

\* openDeviceFile: [err, c, files]; os.Open gives a nil file on failure
openDeviceFile(cl, fs, ok) ==
    LET released == [h \in FileIds |->
                        IF h = cl.f /\ fs[h] = "closed" THEN "free" ELSE fs[h]]
        new == CHOOSE h \in FileIds : released[h] = "free" /\ \A g \in FileIds : released[g] = "free" => h <= g
    IN  IF ok
        THEN [err |-> "nil", c |-> [cl EXCEPT !.f = new], files |-> [released EXCEPT ![new] = "open"]]
        ELSE [err |-> "open /dev/dysk", c |-> [cl EXCEPT !.f = NilFile], files |-> released]

CanOpen(cl, fs) == \E h \in FileIds : fs[h] = "free" \/ (h = cl.f /\ fs[h] = "closed")

\* a close that leaves the file open
closeDeviceFile_leak(cl, fs) == [err |-> "nil", files |-> fs]

\* closeDeviceFile: [err, files]
closeDeviceFile(cl, fs) ==
    IF cl.f = NilFile THEN [err |-> "Device file is not open", files |-> fs]
    ELSE IF fs[cl.f] # "open" THEN [err |-> "file already closed", files |-> fs]
    ELSE [err |-> "nil", files |-> [fs EXCEPT ![cl.f] = "closed"]]

\* c.f.Fd() names an open file
Live(cl, fs) == cl.f # NilFile /\ fs[cl.f] = "open"

EvOpen(cl, fs) == [Ev("open") EXCEPT !.h = cl.f]
EvClose(cl, fs) == [Ev("close") EXCEPT !.h = IF Live(cl, fs) THEN cl.f ELSE NilFile]
\* an ioctl on the file c.f names; h is 0 when that is no open file
EvIoctl(cl, fs, cmd, arg, kind) ==
    [Ev("ioctl") EXCEPT !.cmd = cmd, !.arg = arg, !.reply = kind,
                        !.h = IF Live(cl, fs) THEN cl.f ELSE NilFile]

(***************************************************************************)
(* Initial states                                                          *)
(***************************************************************************)
Acct == <<"a", "c", "c", "t">>
GoodKey == <<"a", "2", "V", "5">>
BadKey == <<"n", "o", "t", "-", "b", "a", "s", "e", "6", "4", "!", "!">>
Lease1 == <<"L", "1">>
ContainerC == <<"c">>
BlobB == <<"b">>
PathCB == <<"/", "c", "/", "b">>

\* CreateClient(account, key)
CreateClient(account, key) ==
    [storageAccountName |-> account, storageAccountKey |-> key,
     blobClient |-> "unset", f |-> NilFile]

ClientConfigs ==
    {<<Acct, GoodKey>>, <<Acct, BadKey>>, <<Acct, <<>> >>, << <<>>, GoodKey>>,
     <<Acct, Rep("A", MaxKeyLen + 1)>>, <<Rep("a", MaxAccountLen + 1), GoodKey>>}

PageBlob(size) ==
    [cname |-> ContainerC, bname |-> BlobB, size |-> size, btype |-> BlobTypePage,
     lease |-> Lease1, header |-> FALSE, meta |-> FALSE]

MaxGB == 2
\* object sizes: whole gigabytes, a gigabyte and a half, half a gigabyte
ObjectSizes ==
    {g * SectorsPerGB : g \in 1..MaxGB} \cup {SectorsPerGB + SectorsPerGB \div 2, SectorsPerGB \div 2}

StoreInits ==
    {PageBlob(z) : z \in ObjectSizes}
        \cup {[PageBlob(SectorsPerGB) EXCEPT !.btype = BlobTypeBlock],
              [NoStore EXCEPT !.cname = ContainerC],
              NoStore}

InitCommon ==
    /\ files = [h \in FileIds |-> "free"]
    /\ pc = [t \in Threads |-> "idle"]
    /\ loc = [t \in Threads |-> NoLoc]
    /\ log = [t \in Threads |-> <<>>]
    /\ ret = [t \in Threads |-> NoRet]
    /\ crashed = FALSE
    /\ raced = FALSE

Init ==
    /\ InitCommon
    /\ \E cfg \in ClientConfigs : c = CreateClient(cfg[1], cfg[2])
    /\ store \in StoreInits
    /\ codec = NoCodec
    /\ buf = NoBuf

(***************************************************************************)
(* Inputs of the operations                                                *)
(***************************************************************************)
GoodDysk ==
    [NoDysk EXCEPT !.Type = ReadWrite, !.Name = DiskA, !.SizeGB = 1, !.Path = PathCB,
                   !.LeaseId = Lease1]

OtherHost == <<"h", ".", "e", "x", "a", "m", "p", "l", "e">>

MountInputs ==
    {[GoodDysk EXCEPT !.Vhd = v, !.SizeGB = g] : v \in BOOLEAN, g \in 0..MaxGB}
        \cup {[GoodDysk EXCEPT !.Type = v] : v \in {ReadOnly, <<"X">>, <<>>}}
        \cup {[GoodDysk EXCEPT !.Name = v] :
                v \in {<<"a", "/", "b">>, <<>>, Rep("n", MaxNameLen), Rep("n", MaxNameLen + 1)}}
        \cup {[GoodDysk EXCEPT !.Path = v] :
                v \in {<<>>, <<"/", "c", "/", "x">>, Rep("p", MaxPathLen + 1)}}
        \cup {[GoodDysk EXCEPT !.host = v] :
                v \in {OtherHost, Rep("h", MaxHostLen), Rep("h", MaxHostLen + 1)}}
        \cup {[GoodDysk EXCEPT !.LeaseId = v] :
                v \in {<<>>, <<"L", "2">>, Rep("l", MaxLeaseLen + 1)}}
        \cup {[GoodDysk EXCEPT !.Name = <<"a", "/", "b">>, !.LeaseId = <<>>],
              [GoodDysk EXCEPT !.host = Rep("h", MaxHostLen + 1), !.LeaseId = <<>>],
              [GoodDysk EXCEPT !.Type = ReadOnly, !.Vhd = TRUE],
              [GoodDysk EXCEPT !.Major = 8, !.Minor = 16],
              [GoodDysk EXCEPT !.Major = 8, !.Minor = 16, !.LeaseId = <<>>]}

NameInputs == {DiskA, <<"a", "/", "b">>, <<>>, Rep("n", MaxNameLen + 1)}

\* isValidDeviceName: the name checks of the validator
isValidDeviceName(name) ==
    IF Len(name) = 0 \/ MaxNameLen < Len(name)
    THEN "Invalid name. Only max of(32) chars"
    ELSE IF Contains(name, "/") \/ Contains(name, "\\") \/ Contains(name, ".")
    THEN "Invalid name. Must not contain \\ / ."
    ELSE "nil"

(***************************************************************************)
(* One command exchange                                                    *)
(***************************************************************************)
\* a Mount that copies the device numbers the wrong way round
mount_exchange_swapped(d, kind, live) ==
    LET res == parseResponse(MountReply(kind, d))
        newdysk == string2dysk(res.response)
        r(p, e, x) == [panic |-> p, err |-> e, d |-> x]
    IN  IF kind = "errno" \/ ~live THEN r(FALSE, "errno", d)
        ELSE IF res.panic THEN r(TRUE, "nil", d)
        ELSE IF res.is_error THEN r(FALSE, "ERR", d)
        ELSE IF newdysk.panic THEN r(TRUE, "nil", d)
        ELSE IF newdysk.err THEN r(FALSE, "strconv", d)
        ELSE r(FALSE, "nil", [d EXCEPT !.Major = newdysk.d.Minor, !.Minor = newdysk.d.Major])

\* a Mount that clears the device numbers when the exchange fails
mount_exchange_reset(d, kind, live) ==
    LET buffer == bufferize(dysk2string(d))
        cleared == [d EXCEPT !.Major = 0, !.Minor = 0]
        r(p, e, x) == [panic |-> p, err |-> e, d |-> x]
    IN  IF buffer.panic THEN r(TRUE, "nil", d)
        ELSE IF kind = "errno" \/ ~live THEN r(FALSE, "errno", cleared)
        ELSE LET res == parseResponse(MountReply(kind, d))
             IN  IF res.panic THEN r(TRUE, "nil", d)
                 ELSE IF res.is_error THEN r(FALSE, "ERR", cleared)
                 ELSE LET newdysk == string2dysk(res.response)
                      IN  IF newdysk.panic THEN r(TRUE, "nil", d)
                          ELSE IF newdysk.err THEN r(FALSE, "strconv", cleared)
                          ELSE r(FALSE, "nil", [d EXCEPT !.Major = newdysk.d.Major,
                                                         !.Minor = newdysk.d.Minor])

\* Mount after pre_mount: [panic, err, d] for the buffer the driver returns;
\* live tells whether c.f names an open file (the ioctl fails otherwise)
mount_exchange(d, kind, live) ==
    LET buffer == bufferize(dysk2string(d))
        r(p, e, x) == [panic |-> p, err |-> e, d |-> x]
    IN  IF buffer.panic THEN r(TRUE, "nil", d)
        ELSE IF kind = "errno" \/ ~live THEN r(FALSE, "errno", d)
        ELSE LET res == parseResponse(MountReply(kind, d))
             IN  IF res.panic THEN r(TRUE, "nil", d)
                 ELSE IF res.is_error THEN r(FALSE, "ERR", d)
                 ELSE LET newdysk == string2dysk(res.response)
                      IN  IF newdysk.panic THEN r(TRUE, "nil", d)
                          ELSE IF newdysk.err THEN r(FALSE, "strconv", d)
                          ELSE r(FALSE, "nil", [d EXCEPT !.Major = newdysk.d.Major,
                                                         !.Minor = newdysk.d.Minor])

\* get: [panic, err, d]
get(deviceName, kind, live) ==
    LET buffer == bufferize(NameArg(deviceName))
        r(p, e, x) == [panic |-> p, err |-> e, d |-> x]
    IN  IF buffer.panic THEN r(TRUE, "nil", NoDysk)
        ELSE IF kind = "errno" \/ ~live THEN r(FALSE, "errno", NoDysk)
        ELSE LET res == parseResponse(GetReply(kind, deviceName))
             IN  IF res.panic THEN r(TRUE, "nil", NoDysk)
                 ELSE IF res.is_error THEN r(FALSE, "ERR", NoDysk)
                 ELSE LET d == string2dysk(res.response)
                      IN  IF d.panic THEN r(TRUE, "nil", NoDysk)
                          ELSE IF d.err THEN r(FALSE, "strconv", NoDysk)
                          ELSE r(FALSE, "nil", d.d)

\* Unmount after the open: [panic, err]
unmount_exchange(name, kind, live) ==
    LET buffer == bufferize(NameArg(name))
    IN  IF buffer.panic THEN [panic |-> TRUE, err |-> "nil"]
        ELSE IF kind = "errno" \/ ~live THEN [panic |-> FALSE, err |-> "errno"]
        ELSE LET res == parseResponse(UnmountReply(kind))
             IN  IF res.panic THEN [panic |-> TRUE, err |-> "nil"]
                 ELSE IF res.is_error THEN [panic |-> FALSE, err |-> "ERR"]
                 ELSE [panic |-> FALSE, err |-> "nil"]

\* a List that drops the empty segments of the payload
list_exchange_dropEmpty(kind, live) ==
    LET res == parseResponse(ListReply(kind))
        r(p, e, x) == [panic |-> p, err |-> e, split |-> x]
    IN  IF kind = "errno" \/ ~live THEN r(FALSE, "errno", <<>>)
        ELSE IF res.panic THEN r(TRUE, "nil", <<>>)
        ELSE IF res.is_error THEN r(FALSE, "ERR", <<>>)
        ELSE r(FALSE, "nil", SelectSeq(Split(res.response), LAMBDA x : x # <<>>))

\* List's own exchange: [panic, err, split]
list_exchange(kind, live) ==
    LET buffer == bufferize(<<"-">>)
        r(p, e, x) == [panic |-> p, err |-> e, split |-> x]
    IN  IF kind = "errno" \/ ~live THEN r(FALSE, "errno", <<>>)
        ELSE LET res == parseResponse(ListReply(kind))
             IN  IF res.panic THEN r(TRUE, "nil", <<>>)
                 ELSE IF res.is_error THEN r(FALSE, "ERR", <<>>)
                 ELSE r(FALSE, "nil", Split(res.response))

(***************************************************************************)
(* Operations.  Each is a sequence of steps of its caller t; the steps     *)
(* are cut where the operation touches what callers share (c.f, the file,  *)
(* the driver, the store).                                                 *)
(***************************************************************************)
\* no operation is running
Idle == \A t \in Threads : pc[t] \in {"idle", "done"}

\* an operation that returns before it has opened the device
ReturnEarly(t, op, name, err) ==
    /\ ret' = [ret EXCEPT ![t] = [NoRet EXCEPT !.op = op, !.err = err, !.name = name]]
    /\ log' = [log EXCEPT ![t] = <<>>]
    /\ pc' = [pc EXCEPT ![t] = "done"]
    /\ UNCHANGED <<c, files, store, loc, crashed, codec, buf, raced>>

\* the open at the head of an operation; on failure the operation returns
Open(t, op, ok, next, l) ==
    LET o == openDeviceFile(c, files, ok)
    IN  /\ CanOpen(c, files)
        /\ c' = o.c
        /\ files' = o.files
        /\ log' = [log EXCEPT ![t] = <<EvOpen(o.c, o.files)>>]
        /\ IF ok
           THEN /\ pc' = [pc EXCEPT ![t] = next]
                /\ loc' = [loc EXCEPT ![t] = [l EXCEPT !.op = op]]
                /\ ret' = [ret EXCEPT ![t] = NoRet]
           ELSE /\ pc' = [pc EXCEPT ![t] = "done"]
                /\ loc' = loc
                /\ ret' = [ret EXCEPT ![t] = [NoRet EXCEPT !.op = op, !.err = o.err, !.arg = l.arg,
                                                            !.name = l.name, !.d = l.d]]
        /\ raced' = (raced \/ \E u \in Threads \ {t} : pc[u] \notin {"idle", "done"})
        /\ UNCHANGED <<store, crashed, codec, buf>>

\* Mount: openDeviceFile, defer closeDeviceFile
MountOpen(t, d, ok) ==
    /\ pc[t] = "idle" /\ ~crashed
    /\ Open(t, "Mount", ok, "mount_pre", [NoLoc EXCEPT !.arg = d, !.d = d])

\* Mount: pre_mount
MountPre(t, F) ==
    /\ pc[t] = "mount_pre" /\ ~crashed
    /\ LET r == pre_mount(c, loc[t].d, store, F)
       IN  /\ c' = r.c
           /\ store' = r.st
           /\ log' = [log EXCEPT ![t] = @ \o r.ev]
           /\ loc' = [loc EXCEPT ![t].d = r.d, ![t].err = r.err]
           /\ pc' = [pc EXCEPT ![t] = IF r.err = "nil" THEN "mount_ioctl" ELSE "ret"]
    /\ UNCHANGED <<files, ret, crashed, codec, buf, raced>>

\* Mount: encode, ioctl, parse, decode
MountIoctl(t, kind) ==
    /\ pc[t] = "mount_ioctl" /\ ~crashed
    /\ LET r == mount_exchange(loc[t].d, kind, Live(c, files))
       IN  /\ log' = [log EXCEPT ![t] = Append(@, EvIoctl(c, files, IOCTLMOUNTDYSK, dysk2string(loc[t].d), kind))]
           /\ loc' = [loc EXCEPT ![t].d = r.d, ![t].err = r.err, ![t].panic = r.panic]
    /\ pc' = [pc EXCEPT ![t] = "ret"]
    /\ UNCHANGED <<c, files, store, ret, crashed, codec, buf, raced>>

\* Unmount: isValidDeviceName, openDeviceFile, defer closeDeviceFile
UnmountCall(t, name, ok) ==
    /\ pc[t] = "idle" /\ ~crashed
    /\ IF isValidDeviceName(name) # "nil"
       THEN ReturnEarly(t, "Unmount", name, isValidDeviceName(name))
       ELSE Open(t, "Unmount", ok, "unmount_ioctl", [NoLoc EXCEPT !.name = name])

UnmountIoctl(t, kind) ==
    /\ pc[t] = "unmount_ioctl" /\ ~crashed
    /\ LET r == unmount_exchange(loc[t].name, kind, Live(c, files))
       IN  /\ log' = [log EXCEPT ![t] = Append(@, EvIoctl(c, files, IOCTLUNMOUNTDYSK, NameArg(loc[t].name), kind))]
           /\ loc' = [loc EXCEPT ![t].err = r.err, ![t].panic = r.panic]
    /\ pc' = [pc EXCEPT ![t] = "ret"]
    /\ UNCHANGED <<c, files, store, ret, crashed, codec, buf, raced>>

\* Get: isValidDeviceName, openDeviceFile, defer closeDeviceFile
GetCall(t, name, ok) ==
    /\ pc[t] = "idle" /\ ~crashed
    /\ IF isValidDeviceName(name) # "nil"
       THEN ReturnEarly(t, "Get", name, isValidDeviceName(name))
       ELSE Open(t, "Get", ok, "get_ioctl", [NoLoc EXCEPT !.name = name])

\* Get: get, post_get
GetIoctl(t, kind) ==
    /\ pc[t] = "get_ioctl" /\ ~crashed
    /\ LET r == get(loc[t].name, kind, Live(c, files))
       IN  /\ log' = [log EXCEPT ![t] = Append(@, EvIoctl(c, files, IOCTGETDYSK, NameArg(loc[t].name), kind))]
           /\ loc' = [loc EXCEPT ![t].err = r.err, ![t].panic = r.panic,
                                 ![t].d = IF r.err = "nil" /\ ~r.panic THEN post_get(r.d) ELSE NoDysk]
    /\ pc' = [pc EXCEPT ![t] = "ret"]
    /\ UNCHANGED <<c, files, store, ret, crashed, codec, buf, raced>>

\* List: openDeviceFile, defer closeDeviceFile
ListOpen(t, ok) ==
    /\ pc[t] = "idle" /\ ~crashed
    /\ Open(t, "List", ok, "list_ioctl", NoLoc)

\* List: the LIST exchange and the split of its payload
ListIoctl(t, kind) ==
    /\ pc[t] = "list_ioctl" /\ ~crashed
    /\ LET r == list_exchange(kind, Live(c, files))
           more == r.err = "nil" /\ ~r.panic /\ Len(r.split) > 1
       IN  /\ log' = [log EXCEPT ![t] = Append(@, EvIoctl(c, files, IOCTLISTDYYSKS, <<"-">>, kind))]
           /\ loc' = [loc EXCEPT ![t].err = r.err, ![t].panic = r.panic,
                                 ![t].split = r.split, ![t].idx = 0]
           /\ pc' = [pc EXCEPT ![t] = IF more THEN "list_get" ELSE "ret"]
    /\ UNCHANGED <<c, files, store, ret, crashed, codec, buf, raced>>

\* a List that hands back the descriptors it had collected when a Get fails
ListGet_partial(t, kind) ==
    /\ pc[t] = "list_get" /\ ~crashed
    /\ LET l == loc[t]
           name == l.split[l.idx + 1]
           r == get(name, kind, Live(c, files))
           good == r.err = "nil" /\ ~r.panic
           last == l.idx + 1 = Len(l.split) - 1
       IN  /\ log' = [log EXCEPT ![t] = Append(@, EvIoctl(c, files, IOCTGETDYSK, NameArg(name), kind))]
           /\ loc' = [loc EXCEPT ![t].err = r.err, ![t].panic = r.panic,
                                 ![t].idx = l.idx + 1,
                                 ![t].dysks = IF good THEN Append(l.dysks, post_get(r.d)) ELSE l.dysks]
           /\ pc' = [pc EXCEPT ![t] = IF good /\ ~last THEN "list_get" ELSE "ret"]
    /\ UNCHANGED <<c, files, store, ret, crashed, codec, buf, raced>>

\* List: one turn of the loop over splitNames (the last segment ends it)
ListGet(t, kind) ==
    /\ pc[t] = "list_get" /\ ~crashed
    /\ LET l == loc[t]
           name == l.split[l.idx + 1]
           r == get(name, kind, Live(c, files))
           good == r.err = "nil" /\ ~r.panic
           last == l.idx + 1 = Len(l.split) - 1
       IN  /\ log' = [log EXCEPT ![t] = Append(@, EvIoctl(c, files, IOCTGETDYSK, NameArg(name), kind))]
           /\ loc' = [loc EXCEPT ![t].err = r.err, ![t].panic = r.panic,
                                 ![t].idx = l.idx + 1,
                                 ![t].dysks = IF good THEN Append(l.dysks, post_get(r.d)) ELSE <<>>]
           /\ pc' = [pc EXCEPT ![t] = IF good /\ ~last THEN "list_get" ELSE "ret"]
    /\ UNCHANGED <<c, files, store, ret, crashed, codec, buf, raced>>

\* the deferred closeDeviceFile and the return (or the abort after a panic)
Return(t) ==
    /\ pc[t] = "ret"
    /\ ~crashed
    /\ files' = closeDeviceFile(c, files).files
    /\ log' = [log EXCEPT ![t] = Append(@, EvClose(c, files))]
    /\ ret' = [ret EXCEPT ![t] = [NoRet EXCEPT !.op = loc[t].op, !.err = loc[t].err,
                                               !.arg = loc[t].arg, !.name = loc[t].name,
                                               !.d = loc[t].d, !.dysks = loc[t].dysks,
                                               !.panic = loc[t].panic]]
    /\ crashed' = loc[t].panic
    /\ pc' = [pc EXCEPT ![t] = "done"]
    /\ loc' = [loc EXCEPT ![t] = NoLoc]
    /\ UNCHANGED <<c, store, codec, buf, raced>>

(***************************************************************************)
(* Provisioner                                                             *)
(***************************************************************************)
\* a CreatePageBlob that puts the store back as it was when a step fails
CreatePageBlob_cleanup(cl, st, sizeGB, container, pageBlobName, is_vhd, F) ==
    LET sizeBytes == sizeGB * SectorsPerGB
        svc == ensureBlobService(cl, F)
        c1 == svc.c
        r(e, l, s, ev) == [err |-> e, lease |-> l, c |-> c1, st |-> s, ev |-> ev]
        e1 == <<Ev("CreateIfNotExists")>>
        e2 == e1 \o <<[Ev("PutPageBlob") EXCEPT !.n = sizeBytes]>>
        e3 == e2 \o <<[Ev("WriteRange") EXCEPT !.n = sizeBytes - VHD_HEADER_SIZE]>>
        e4 == e3 \o <<Ev("AcquireLease")>>
        s4 == [st EXCEPT !.cname = container, !.bname = pageBlobName, !.size = sizeBytes,
                         !.btype = BlobTypePage, !.lease = Lease1, !.header = TRUE,
                         !.meta = FALSE]
    IN  IF svc.err # "nil" THEN r(svc.err, <<>>, st, <<>>)
        ELSE IF "mkcontainer" \in F THEN r("store: CreateIfNotExists", <<>>, st, e1)
        ELSE IF "putblob" \in F \/ (st.bname # <<>> /\ st.lease # <<>>)
        THEN r("store: PutPageBlob", <<>>, st, e2)
        ELSE IF "writerange" \in F \/ sizeBytes < VHD_HEADER_SIZE
        THEN r("store: WriteRange", <<>>, st, e3)
        ELSE IF "lease" \in F THEN r("store: AcquireLease", <<>>, st, e4)
        ELSE r("nil", Lease1, s4, e4)

\* CreatePageBlob: [err, lease, c, st, ev]
CreatePageBlob(cl, st, sizeGB, container, pageBlobName, is_vhd, F) ==
    LET sizeBytes == sizeGB * SectorsPerGB
        svc == ensureBlobService(cl, F)
        c1 == svc.c
        r(e, l, s, ev) == [err |-> e, lease |-> l, c |-> c1, st |-> s, ev |-> ev]
        e1 == <<Ev("CreateIfNotExists")>>
        e2 == e1 \o <<[Ev("PutPageBlob") EXCEPT !.n = sizeBytes]>>
        e3 == e2 \o <<[Ev("WriteRange") EXCEPT !.n = sizeBytes - VHD_HEADER_SIZE]>>
        e4 == e3 \o <<Ev("AcquireLease")>>
        s1 == [st EXCEPT !.cname = container]
        s2 == [s1 EXCEPT !.bname = pageBlobName, !.size = sizeBytes, !.btype = BlobTypePage,
                         !.lease = <<>>, !.header = FALSE, !.meta = FALSE]
        s3 == [s2 EXCEPT !.header = TRUE]
        s4 == [s3 EXCEPT !.lease = Lease1]
    IN  IF svc.err # "nil" THEN r(svc.err, <<>>, st, <<>>)
        ELSE IF "mkcontainer" \in F THEN r("store: CreateIfNotExists", <<>>, st, e1)
        ELSE IF "putblob" \in F \/ (st.bname # <<>> /\ st.lease # <<>>)
        THEN r("store: PutPageBlob", <<>>, s1, e2)
        \* the header is written whatever is_vhd says
        ELSE IF "writerange" \in F \/ sizeBytes < VHD_HEADER_SIZE
        THEN r("store: WriteRange", <<>>, s2, e3)
        ELSE IF "lease" \in F THEN r("store: AcquireLease", <<>>, s3, e4)
        ELSE r("nil", Lease1, s4, e4)

CreatePageBlobCall(t, sizeGB, is_vhd, F) ==
    /\ pc[t] = "idle" /\ ~crashed
    /\ LET r == CreatePageBlob(c, store, sizeGB, ContainerC, BlobB, is_vhd, F)
       IN  /\ c' = r.c
           /\ store' = r.st
           /\ log' = [log EXCEPT ![t] = r.ev]
           /\ ret' = [ret EXCEPT ![t] = [NoRet EXCEPT !.op = "CreatePageBlob", !.err = r.err,
                                                      !.lease = r.lease,
                                                      !.arg = [NoDysk EXCEPT !.SizeGB = sizeGB, !.Vhd = is_vhd]]]
    /\ pc' = [pc EXCEPT ![t] = "done"]
    /\ UNCHANGED <<files, loc, crashed, codec, buf, raced>>

\* the caller has taken the result of its last call and may call again
Resume(t) ==
    /\ pc[t] = "done" /\ ~crashed
    /\ pc' = [pc EXCEPT ![t] = "idle"]
    /\ ret' = [ret EXCEPT ![t] = NoRet]
    /\ log' = [log EXCEPT ![t] = <<>>]
    /\ UNCHANGED <<c, files, store, loc, crashed, codec, buf, raced>>

(***************************************************************************)
(* Serialized use of one client                                            *)
(***************************************************************************)
Next ==
    \E t \in {MainThread} :
        \/ \E d \in MountInputs, ok \in BOOLEAN : Idle /\ MountOpen(t, d, ok)
        \/ \E F \in Envs(MountSites) : MountPre(t, F)
        \/ \E kind \in MountReplies : MountIoctl(t, kind)
        \/ \E name \in NameInputs, ok \in BOOLEAN : Idle /\ UnmountCall(t, name, ok)
        \/ \E kind \in UnmountReplies : UnmountIoctl(t, kind)
        \/ \E name \in NameInputs, ok \in BOOLEAN : Idle /\ GetCall(t, name, ok)
        \/ \E kind \in GetReplies : GetIoctl(t, kind)
        \/ \E ok \in BOOLEAN : Idle /\ ListOpen(t, ok)
        \/ \E kind \in ListReplies : ListIoctl(t, kind)
        \/ \E kind \in GetReplies : ListGet(t, kind)
        \/ Return(t)
        \/ Resume(t)
        \/ \E g \in 0..MaxGB, v \in BOOLEAN, F \in Envs(ProvisionSites) : Idle /\ CreatePageBlobCall(t, g, v, F)

Spec == Init /\ [][Next]_vars

(***************************************************************************)
(* Concurrent use of one client: two callers run Mount and Get on the same *)
(* dyskclient with no synchronization, their steps interleaved.            *)
(***************************************************************************)
InitConcurrent ==
    /\ InitCommon
    /\ c = CreateClient(Acct, GoodKey)
    /\ store = PageBlob(SectorsPerGB)
    /\ codec = NoCodec
    /\ buf = NoBuf

NextConcurrent ==
    \E t \in Threads :
        \/ \E ok \in BOOLEAN : MountOpen(t, GoodDysk, ok)
        \/ MountPre(t, {})
        \/ \E kind \in {"ok", "ERR"} : MountIoctl(t, kind)
        \/ \E ok \in BOOLEAN : GetCall(t, DiskA, ok)
        \/ \E kind \in {"ok", "ERR"} : GetIoctl(t, kind)
        \/ Return(t)
        \/ Resume(t)

SpecConcurrent == InitConcurrent /\ [][NextConcurrent]_vars

(***************************************************************************)
(* The wire codec on its own: a descriptor is encoded, the text is left    *)
(* as it is or given the device numbers the way the driver writes them,    *)
(* and decoded.                                                            *)
(***************************************************************************)
CodecInputs ==
    {[NoDysk EXCEPT !.Type = ty, !.Name = nm, !.sectorCount = sc, !.AccountName = Acct,
                    !.AccountKey = GoodKey, !.Path = pa, !.host = h, !.ip = ResolvedIP,
                    !.LeaseId = l, !.Vhd = v] :
        ty \in {ReadOnly, ReadWrite}, nm \in {DiskA, Rep("n", MaxNameLen)},
        sc \in {0, SectorsPerGB, 999999999, MaxUint64},
        pa \in {PathCB, <<>>}, h \in {<<>>, Acct \o HostSuffix},
        l \in {Lease1, Rep("l", MaxLeaseLen)}, v \in BOOLEAN}

DevNumbers == {<<252, 0>>, <<8, 16>>, <<0, 0>>}

\* the driver's text of an encoded descriptor: major and minor go between
\* leaseId and the vhd flag
InsertDevice(wire, major, minor) ==
    LET segs == Split(wire)
    IN  Join(SubSeq(segs, 1, 9) \o <<FmtInt(major), FmtInt(minor), segs[10]>>)

InitCodec ==
    /\ InitCommon
    /\ c = CreateClient(Acct, GoodKey)
    /\ store = NoStore
    /\ \E d \in CodecInputs : codec = [NoCodec EXCEPT !.stage = "in", !.d = d]
    /\ buf = NoBuf

CodecEncode ==
    /\ codec.stage = "in"
    /\ codec' = [codec EXCEPT !.stage = "encoded", !.wire = dysk2string(codec.d)]
    /\ UNCHANGED <<c, files, store, pc, loc, log, ret, crashed, buf, raced>>

CodecStamp(major, minor) ==
    /\ codec.stage = "encoded"
    /\ ~codec.stamped
    /\ codec' = [codec EXCEPT !.stamped = TRUE, !.major = major, !.minor = minor,
                              !.wire = InsertDevice(codec.wire, major, minor)]
    /\ UNCHANGED <<c, files, store, pc, loc, log, ret, crashed, buf, raced>>

CodecDecode ==
    /\ codec.stage = "encoded"
    /\ codec' = [codec EXCEPT !.stage = "decoded", !.out = string2dysk(codec.wire)]
    /\ UNCHANGED <<c, files, store, pc, loc, log, ret, crashed, buf, raced>>

NextCodec ==
    \/ CodecEncode
    \/ \E m \in DevNumbers : CodecStamp(m[1], m[2])
    \/ CodecDecode

SpecCodec == InitCodec /\ [][NextCodec]_vars

(***************************************************************************)
(* bufferize and parseResponse on their own: a text is parsed as it is, or *)
(* put in a command buffer and the buffer parsed.                          *)
(***************************************************************************)
StatusTokens ==
    {<<"E", "R", "R">>, <<"O", "K">>, <<"E", "R", "R", "O", "R">>, <<"e", "r", "r">>,
     <<"X", "E", "R", "R">>, <<"E", "R", "R", " ">>, <<"E", "R">>, <<>>}

Payloads ==
    {<<>>, <<"b", "a", "d", " ", "l", "e", "a", "s", "e", NL>>, <<"f", "o", "o", NL>>,
     <<"E", "R", "R", NL>>, <<NL>>, DiskA \o <<NL>> \o DiskB \o <<NL, NL>>}

\* the texts given to bufferize and parseResponse: a status line and a
\* payload, texts without any newline, and texts around the buffer's capacity
BufferInputs ==
    {tok \o <<NL>> \o pay : tok \in StatusTokens, pay \in Payloads}
        \cup StatusTokens
        \cup {Rep("x", n) : n \in {IOCTL_IN_OUT_MAX - 1, IOCTL_IN_OUT_MAX, IOCTL_IN_OUT_MAX + 1}}
        \cup {<<"O", "K", NL>> \o Rep("x", IOCTL_IN_OUT_MAX - 4),
              <<"O", "K", NL>> \o Rep("x", IOCTL_IN_OUT_MAX - 3)}

InitBuffer ==
    /\ InitCommon
    /\ c = CreateClient(Acct, GoodKey)
    /\ store = NoStore
    /\ codec = NoCodec
    /\ \E s \in BufferInputs : buf = [NoBuf EXCEPT !.stage = "in", !.s = s]

\* bufferize(s)
BufferFill ==
    /\ buf.stage = "in" /\ ~buf.padded
    /\ buf' = [buf EXCEPT !.padded = TRUE, !.b = bufferize(buf.s)]
    /\ UNCHANGED <<c, files, store, pc, loc, log, ret, crashed, codec, raced>>

\* parseResponse of the text, or of the buffer made of it
BufferParse ==
    /\ buf.stage = "in" /\ ~buf.b.panic
    /\ buf' = [buf EXCEPT !.stage = "parsed",
                          !.res = parseResponse(IF buf.padded THEN buf.b.b ELSE buf.s)]
    /\ UNCHANGED <<c, files, store, pc, loc, log, ret, crashed, codec, raced>>

NextBuffer ==
    \/ BufferFill
    \/ BufferParse

SpecBuffer == InitBuffer /\ [][NextBuffer]_vars

(***************************************************************************)
(* C1                                                                      *)
(***************************************************************************)
SameFields(a, b) ==
    /\ a.Type = b.Type /\ a.Name = b.Name /\ a.sectorCount = b.sectorCount
    /\ a.AccountName = b.AccountName /\ a.AccountKey = b.AccountKey /\ a.Path = b.Path
    /\ a.host = b.host /\ a.ip = b.ip /\ a.LeaseId = b.LeaseId /\ a.Vhd = b.Vhd

\* C1 as stated: decoding the encoder's own output succeeds and gives back
\* the descriptor's type, name, sectorCount, accountName, accountKey, path,
\* host, ip, leaseId and isImageFormat.
C1_RoundTripAsStated ==
    (codec.stage = "decoded" /\ ~codec.stamped) =>
        /\ ~codec.out.panic /\ ~codec.out.err
        /\ SameFields(codec.out.d, codec.d)

\* C1 amended: decoding the encoder's own output returns an error (the
\* decoder reads major and minor at fields 9 and 10, where the encoder wrote
\* the vhd flag and nothing); decoding the encoded text with major and minor
\* put between leaseId and the vhd flag succeeds and gives back every encoded
\* field, together with that major and minor.
C1_RoundTrip ==
    codec.stage = "decoded" =>
        IF codec.stamped
        THEN /\ ~codec.out.panic /\ ~codec.out.err
             /\ SameFields(codec.out.d, codec.d)
             /\ codec.out.d.Major = codec.major /\ codec.out.d.Minor = codec.minor
        ELSE ~codec.out.panic /\ codec.out.err

C1_Witness ==
    /\ codec.stage = "decoded" /\ codec.stamped /\ ~codec.out.err
    /\ codec.d.Vhd /\ codec.d.sectorCount = MaxUint64 /\ codec.out.d.Major = 252
    /\ Len(codec.d.Name) = MaxNameLen /\ Len(codec.d.LeaseId) = MaxLeaseLen

(***************************************************************************)
(* Reading a caller's history                                              *)
(***************************************************************************)
Done(t, op) == pc[t] = "done" /\ ret[t].op = op
\* the argument of the operation t runs or has just run
ArgOf(t) == IF pc[t] = "done" THEN ret[t].arg ELSE loc[t].arg
OpOf(t) == IF pc[t] = "done" THEN ret[t].op ELSE loc[t].op
IsCmd(e, cmd) == e.op = "ioctl" /\ e.cmd = cmd
Cmds(t, cmd) == SelectSeq(log[t], LAMBDA e : IsCmd(e, cmd))
Ops(t) == [i \in 1..Len(log[t]) |-> log[t][i].op]
StoreOps ==
    {"GetProperties", "Container.Exists", "Blob.Exists", "SetMetadata",
     "CreateIfNotExists", "PutPageBlob", "WriteRange", "AcquireLease"}
IsPrefix(a, b) == Len(a) <= Len(b) /\ a = SubSeq(b, 1, Len(a))

NameErrors ==
    {"Invalid name. Only max of(32) chars", "Invalid name. Must not contain \\ / ."}
FieldErrors ==
    NameErrors \cup
    {"Invalid type. Must be R or RW", "Invalid Sector count.",
     "Invalid Account name. Must be <= than 256", "Invalid AccountKey. Must be <= 64",
     "Invalid account key. Must be a base64 encoded string", "Invalid path. Must be <= 1024",
     "Invalid host. Must be <= 512", "Invalid Lease Id. Must be <= 32"}

(***************************************************************************)
(* C2                                                                      *)
(***************************************************************************)
OneGBText == <<"2", "0", "9", "7", "1", "5", "2">>

\* C2 as stated: for a ReadWrite, non-image descriptor whose object is 1 GB
\* the MOUNT command carries sectorCount 2097152, and when the driver answers
\* with the encoded descriptor with "252" and "0" appended, Mount succeeds and
\* the descriptor has major 252 and minor 0.
C2_MountAsStated ==
    \A t \in Threads : \A i \in DOMAIN log[t] :
        LET e == log[t][i]
            a == ArgOf(t)
        IN  (IsCmd(e, IOCTLMOUNTDYSK) /\ a.Type = ReadWrite /\ ~a.Vhd /\ store.size = SectorsPerGB) =>
                /\ Split(e.arg)[3] = OneGBText
                /\ (Done(t, "Mount") /\ e.reply = "appended") =>
                       (ret[t].err = "nil" /\ ret[t].d.Major = 252 /\ ret[t].d.Minor = 0)

\* C2 amended: for a ReadWrite, non-image descriptor with sizeGB 1 whose
\* object is 1 GB the MOUNT command carries sectorCount 2097152, and when the
\* driver answers with a success status and the descriptor text with major 252
\* and minor 0 between leaseId and the image flag, Mount succeeds and the
\* caller's descriptor has major 252 and minor 0.
C2_MountEndToEnd ==
    \A t \in Threads : \A i \in DOMAIN log[t] :
        LET e == log[t][i]
            a == ArgOf(t)
        IN  (IsCmd(e, IOCTLMOUNTDYSK) /\ a.Type = ReadWrite /\ ~a.Vhd /\ a.SizeGB = 1
                /\ store.size = SectorsPerGB) =>
                /\ Split(e.arg)[3] = OneGBText
                /\ (Done(t, "Mount") /\ e.reply = "ok") =>
                       (ret[t].err = "nil" /\ ret[t].d.Major = 252 /\ ret[t].d.Minor = 0)

C2_Witness ==
    \E t \in Threads :
        /\ Done(t, "Mount") /\ ret[t].arg = GoodDysk /\ store.size = SectorsPerGB
        /\ Len(Cmds(t, IOCTLMOUNTDYSK)) = 1 /\ Cmds(t, IOCTLMOUNTDYSK)[1].reply = "ok"
        /\ ret[t].err = "nil" /\ ret[t].d.Major = 252 /\ ret[t].d.Minor = 0
        /\ ret[t].d.sectorCount = 2097152

(***************************************************************************)
(* C3                                                                      *)
(***************************************************************************)
\* the names List asked the driver about, in order
Queried(t) == [i \in 1..Len(Cmds(t, IOCTGETDYSK)) |-> Cmds(t, IOCTGETDYSK)[i].arg]
ListKind(t) == Cmds(t, IOCTLISTDYYSKS)[1].reply
Listing(t) == OpOf(t) = "List" /\ Len(Cmds(t, IOCTLISTDYYSKS)) = 1

\* C3 as stated: for the payload "diskA\ndiskB\n\n" the GET commands are
\* for diskA and then diskB and for nothing else.
C3_ListAsStated ==
    \A t \in Threads :
        (Listing(t) /\ ListKind(t) = "twoblank") =>
            IsPrefix(Queried(t), <<NameArg(DiskA), NameArg(DiskB)>>)

\* C3 amended: List issues a GET for every newline-separated segment of the
\* payload but the last, in payload order, until one fails: for the payload
\* "diskA\ndiskB\n" (followed by the buffer's padding) these are diskA and
\* diskB; for "diskA\ndiskB\n\n" they are diskA, diskB and the empty name;
\* a List that succeeds has queried all of them and returns one descriptor
\* for each.
C3_ListQueries ==
    \A t \in Threads :
        Listing(t) =>
            LET want == CASE ListKind(t) = "two" -> <<NameArg(DiskA), NameArg(DiskB)>>
                          [] ListKind(t) = "twoblank" ->
                                <<NameArg(DiskA), NameArg(DiskB), NameArg(<<>>)>>
                          [] OTHER -> <<>>
            IN  /\ IsPrefix(Queried(t), want)
                /\ (Done(t, "List") /\ ret[t].err = "nil" /\ ~ret[t].panic) =>
                       (Queried(t) = want /\ Len(ret[t].dysks) = Len(want))

C3_Witness ==
    \E t \in Threads :
        /\ Done(t, "List") /\ Listing(t) /\ ListKind(t) = "twoblank"
        /\ ret[t].err = "nil" /\ Len(ret[t].dysks) = 3
        /\ Queried(t) = <<NameArg(DiskA), NameArg(DiskB), NameArg(<<>>)>>

(***************************************************************************)
(* C4                                                                      *)
(***************************************************************************)
\* C4: a Mount of an otherwise valid descriptor by a client whose key is
\* "not-base64!!" returns a key error, and no MOUNT command is issued.
C4_KeyRejected ==
    \A t \in Threads :
        (Done(t, "Mount") /\ ret[t].arg = GoodDysk /\ c.storageAccountKey = BadKey
            /\ ret[t].err # "open /dev/dysk") =>
            /\ ret[t].err \in {"Invalid AccountKey. Must be <= 64",
                               "Invalid account key. Must be a base64 encoded string"}
            /\ Cmds(t, IOCTLMOUNTDYSK) = <<>>

(***************************************************************************)
(* C5                                                                      *)
(***************************************************************************)
\* C5 as stated: an operation that returns a field-level validation error has
\* not opened the control channel, called the object store or resolved a name.
C5_ValidationAsStated ==
    \A t \in Threads :
        (pc[t] = "done" /\ ret[t].op \in {"Mount", "Unmount", "Get"} /\ ret[t].err \in FieldErrors) =>
            \A i \in DOMAIN log[t] : log[t][i].op \notin StoreOps \cup {"open", "LookupIP"}

\* C5 amended: Unmount and Get return a name error before they open the
\* control channel or do any I/O; Mount returns a field-level validation error
\* after it has opened the control channel and read the object's properties
\* from the store, and before any name resolution, any store call of lease
\* validation and any command to the driver.
C5_ValidationBeforeIO ==
    \A t \in Threads :
        (pc[t] = "done" /\ ret[t].err \in FieldErrors) =>
            IF ret[t].op \in {"Unmount", "Get"}
            THEN log[t] = <<>>
            ELSE ret[t].op = "Mount" /\ Ops(t) = <<"open", "GetProperties", "close">>

C5_Witness ==
    \E t \in Threads :
        /\ Done(t, "Mount") /\ ret[t].err = "Invalid Lease Id. Must be <= 32"
        /\ Ops(t) = <<"open", "GetProperties", "close">>

(***************************************************************************)
(* C6                                                                      *)
(***************************************************************************)
\* C6: with serialized operations, no file is open when no operation runs,
\* every command goes to the open file its operation opened, and an operation
\* that opened the file has closed that file when it has returned.
C6_ScopedHandle ==
    /\ Idle => \A h \in FileIds : files[h] # "open"
    /\ \A t \in Threads :
        /\ \A i \in DOMAIN log[t] :
              log[t][i].op = "ioctl" =>
                  /\ log[t][i].h # NilFile
                  /\ log[t][1].op = "open" /\ log[t][i].h = log[t][1].h
                  /\ pc[t] # "done" => files[log[t][i].h] = "open"
        /\ (pc[t] = "done" /\ log[t] # <<>> /\ log[t][1].op = "open" /\ log[t][1].h # NilFile) =>
              /\ log[t][Len(log[t])].op = "close"
              /\ log[t][Len(log[t])].h = log[t][1].h

C6_Witness ==
    \E t \in Threads :
        /\ Done(t, "List") /\ ret[t].err = "strconv" /\ Len(Cmds(t, IOCTGETDYSK)) = 2
        /\ log[t][Len(log[t])].op = "close" /\ log[t][Len(log[t])].h # NilFile
        /\ \A h \in FileIds : files[h] # "open"

(***************************************************************************)
(* C7                                                                      *)
(***************************************************************************)
\* C7: a descriptor that has passed validation in Mount has a sectorCount of
\* (object size - header size if image format) / 512, and not zero.
C7_SectorCount ==
    \A t \in Threads :
        pc[t] = "mount_ioctl" =>
            /\ loc[t].d.sectorCount =
                  store.size - (IF loc[t].d.Vhd THEN VHD_HEADER_SIZE ELSE 0)
            /\ loc[t].d.sectorCount # 0

C9_HeaderOnlyForImages ==
    \A t \in Threads :
        Done(t, "CreatePageBlob") =>
            IF ret[t].arg.Vhd
            THEN ret[t].err = "nil" =>
                    Ops(t) = <<"CreateIfNotExists", "PutPageBlob", "WriteRange", "AcquireLease">>
            ELSE /\ \A i \in DOMAIN log[t] : log[t][i].op # "WriteRange"
                 /\ ret[t].err = "nil" =>
                        Ops(t) = <<"CreateIfNotExists", "PutPageBlob", "AcquireLease">>

(***************************************************************************)
(* C10                                                                     *)
(***************************************************************************)
\* C10 as stated: a host the caller supplied, of at most 512 characters, is
\* the host that is resolved and sent in the MOUNT command.
C10_HostAsStated ==
    \A t \in Threads : \A i \in DOMAIN log[t] :
        LET e == log[t][i]
            a == ArgOf(t)
        IN  (OpOf(t) = "Mount" /\ 0 < Len(a.host) /\ Len(a.host) <= MaxHostLen) =>
                /\ e.op = "LookupIP" => e.arg = a.host
                /\ IsCmd(e, IOCTLMOUNTDYSK) => Split(e.arg)[7] = a.host

\* C10 amended: the host that is resolved and sent in the MOUNT command is
\* always {accountName}.blob.core.windows.net, whether or not the caller
\* supplied a host; a supplied host longer than 512 characters is rejected
\* (nothing is resolved and no command is sent).
C10_HostDerived ==
    \A t \in Threads : \A i \in DOMAIN log[t] :
        LET e == log[t][i]
            a == ArgOf(t)
        IN  OpOf(t) = "Mount" =>
                /\ e.op = "LookupIP" => e.arg = c.storageAccountName \o HostSuffix
                /\ IsCmd(e, IOCTLMOUNTDYSK) =>
                       Split(e.arg)[7] = c.storageAccountName \o HostSuffix
                /\ Len(a.host) > MaxHostLen => (e.op # "LookupIP" /\ e.op # "ioctl")
                /\ (Len(a.host) > MaxHostLen /\ pc[t] = "done") => ret[t].err # "nil"

C10_Witness ==
    \E t \in Threads :
        /\ Done(t, "Mount") /\ ret[t].arg.host = OtherHost /\ ret[t].err = "nil"
        /\ Len(Cmds(t, IOCTLMOUNTDYSK)) = 1
        /\ Split(Cmds(t, IOCTLMOUNTDYSK)[1].arg)[7] = Acct \o HostSuffix
        /\ ret[t].d.host = Acct \o HostSuffix

(***************************************************************************)
(* C11                                                                     *)
(***************************************************************************)
\* the error a Get returns for each kind of answer that makes it fail
GetFailure(kind) ==
    CASE kind = "errno" -> "errno"
      [] kind = "ERR" -> "ERR"
      [] kind = "nodev" -> "strconv"
      [] OTHER -> "nil"

\* the names in the payload of the list t received (every segment but the last)
ListedNames(t) ==
    CASE ListKind(t) = "two" -> <<DiskA, DiskB>>
      [] ListKind(t) = "twoblank" -> <<DiskA, DiskB, <<>> >>
      [] OTHER -> <<>>

\* C11: List is all-or-nothing.  When a per-name Get fails (low-level
\* failure, driver ERR, decode error) List returns the error of that Get and
\* no descriptors, every Get before it succeeded and no GET is issued for the
\* names after it; when List returns a list, every name was queried and the
\* list holds one normalized descriptor per name, in payload order.
C11_ListAllOrNothing ==
    \A t \in Threads :
        (Done(t, "List") /\ Listing(t) /\ ~ret[t].panic
            /\ ListKind(t) \in {"two", "twoblank", "none"}) =>
            LET g == Cmds(t, IOCTGETDYSK)
                n == Len(g)
                names == ListedNames(t)
            IN  /\ n <= Len(names)
                /\ \A i \in 1..n : g[i].arg = NameArg(names[i])
                /\ \A i \in 1..(n - 1) : g[i].reply \in {"ok", "okvhd"}
                /\ IF ret[t].err # "nil"
                   THEN /\ ret[t].dysks = <<>>
                        /\ n >= 1
                        /\ ret[t].err = GetFailure(g[n].reply)
                   ELSE /\ n = Len(names)
                        /\ Len(ret[t].dysks) = n
                        /\ \A i \in 1..n :
                              /\ g[i].reply \in {"ok", "okvhd"}
                              /\ ret[t].dysks[i].Name = names[i]
                              /\ ret[t].dysks[i].Vhd = (g[i].reply = "okvhd")
                              /\ ret[t].dysks[i].SizeGB = IF g[i].reply = "okvhd" THEN 2 ELSE 1

C11_Witness ==
    \E t \in Threads :
        /\ Done(t, "List") /\ Listing(t) /\ ListKind(t) = "twoblank"
        /\ Len(Cmds(t, IOCTGETDYSK)) = 2
        /\ Cmds(t, IOCTGETDYSK)[1].reply = "okvhd" /\ Cmds(t, IOCTGETDYSK)[2].reply = "ERR"
        /\ ret[t].err = "ERR" /\ ret[t].dysks = <<>>

(***************************************************************************)
(* C12                                                                     *)
(***************************************************************************)
\* the calls of a Mount up to its MOUNT command, when everything succeeds
MountPrelude(type) ==
    <<"open", "GetProperties", "LookupIP", "Container.Exists", "Blob.Exists", "GetProperties">>
        \o (IF type = ReadWrite THEN <<"SetMetadata">> ELSE <<>>)

\* C12: a MOUNT command is issued only after the whole validator has
\* succeeded on the descriptor that is sent: the field checks hold of it, its
\* host was resolved, and the lease validation was made against the store
\* under the leaseId that is sent and was honoured; the leaseId of a MOUNT
\* command is never empty and never longer than 64 characters.
C12_MountAfterValidation ==
    \A t \in Threads : \A i \in DOMAIN log[t] :
        IsCmd(log[t][i], IOCTLMOUNTDYSK) =>
            LET sent == Split(log[t][i].arg)
                lease == sent[9]
            IN  /\ SubSeq(Ops(t), 1, i - 1) = MountPrelude(sent[1])
                /\ sent[1] \in {ReadOnly, ReadWrite}
                /\ Len(sent[2]) \in 1..MaxNameLen
                /\ \A ch \in {"/", "\\", "."} : ~Contains(sent[2], ch)
                /\ sent[3] # <<"0">>
                /\ Len(sent[4]) \in 1..MaxAccountLen
                /\ Len(sent[5]) \in 1..MaxKeyLen
                /\ Len(sent[6]) \in 1..MaxPathLen
                /\ Len(lease) \in 1..MaxLeaseLen
                /\ log[t][3].arg = sent[7] /\ sent[8] = ResolvedIP
                /\ BlobExists(store, Tail(PathDir(sent[6])), PathBase(sent[6]))
                /\ store.btype = BlobTypePage
                /\ log[t][6].arg = lease /\ store.lease = lease
                /\ sent[1] = ReadWrite => (log[t][7].arg = lease /\ store.meta)

C12_Witness ==
    \E t \in Threads :
        /\ Done(t, "Mount") /\ ret[t].err = "nil" /\ ret[t].arg.Type = ReadWrite
        /\ Len(Cmds(t, IOCTLMOUNTDYSK)) = 1
        /\ Ops(t) = MountPrelude(ReadWrite) \o <<"ioctl", "close">>
        /\ store.meta /\ Split(Cmds(t, IOCTLMOUNTDYSK)[1].arg)[9] = Lease1

(***************************************************************************)
(* C13                                                                     *)
(***************************************************************************)
\* the text parseResponse was given
Parsed == IF buf.padded THEN buf.b.b ELSE buf.s

\* C13: for every response text that contains a newline, the status token
\* is the text before the first newline and the payload is everything after
\* that newline; is_error is true exactly when the status token is "ERR".
C13_ParseResponse ==
    (buf.stage = "parsed" /\ Contains(Parsed, NL)) =>
        LET token == Split(Parsed)[1]
        IN  /\ ~buf.res.panic
            /\ Parsed = token \o <<NL>> \o buf.res.response
            /\ buf.res.is_error <=> (token = <<"E", "R", "R">>)
            /\ (Parsed = <<"E", "R", "R", NL, "b", "a", "d", " ", "l", "e", "a", "s", "e", NL>>) =>
                  (buf.res.is_error /\ buf.res.response = <<"b", "a", "d", " ", "l", "e", "a", "s", "e", NL>>)
            /\ (Parsed = <<"O", "K", NL, "f", "o", "o", NL>>) =>
                  (~buf.res.is_error /\ buf.res.response = <<"f", "o", "o", NL>>)

C13_Witness ==
    /\ buf.stage = "parsed" /\ buf.padded /\ ~buf.res.panic /\ ~buf.res.is_error
    /\ buf.s = <<"E", "R", "R", "O", "R", NL, "b", "a", "d", " ", "l", "e", "a", "s", "e", NL>>
    /\ Len(buf.res.response) = IOCTL_IN_OUT_MAX - 6

(***************************************************************************)
(* C14                                                                     *)
(***************************************************************************)
\* C14: for every text s shorter than 2048 bytes, bufferize(s) is 2048 bytes
\* long, begins with the bytes of s, and all its other bytes are zero.
C14_Bufferize ==
    (buf.padded /\ Len(buf.s) < IOCTL_IN_OUT_MAX) =>
        /\ ~buf.b.panic
        /\ Len(buf.b.b) = IOCTL_IN_OUT_MAX
        /\ \A i \in 1..IOCTL_IN_OUT_MAX :
              buf.b.b[i] = IF i <= Len(buf.s) THEN buf.s[i] ELSE NUL

C14_Witness ==
    /\ buf.padded /\ Len(buf.s) = IOCTL_IN_OUT_MAX - 1
    /\ Len(buf.b.b) = IOCTL_IN_OUT_MAX /\ buf.b.b[IOCTL_IN_OUT_MAX] = NUL
    /\ buf.b.b[IOCTL_IN_OUT_MAX - 1] = "x"

(***************************************************************************)
(* C15                                                                     *)
(***************************************************************************)
\* the field checks in the order type, name, sectorCount, accountName,
\* accountKey, path, host, leaseId: whether d violates each, and its error
FieldChecks(d) ==
    <<[bad |-> d.Type \notin {ReadOnly, ReadWrite}, err |-> "Invalid type. Must be R or RW"],
      [bad |-> Len(d.Name) \notin 1..MaxNameLen, err |-> "Invalid name. Only max of(32) chars"],
      [bad |-> \E ch \in {"/", "\\", "."} : Contains(d.Name, ch),
       err |-> "Invalid name. Must not contain \\ / ."],
      [bad |-> d.sectorCount = 0, err |-> "Invalid Sector count."],
      [bad |-> Len(d.AccountName) \notin 1..MaxAccountLen,
       err |-> "Invalid Account name. Must be <= than 256"],
      [bad |-> Len(d.AccountKey) \notin 1..MaxKeyLen, err |-> "Invalid AccountKey. Must be <= 64"],
      [bad |-> Len(d.Path) \notin 1..MaxPathLen, err |-> "Invalid path. Must be <= 1024"],
      [bad |-> Len(d.host) > MaxHostLen, err |-> "Invalid host. Must be <= 512"],
      [bad |-> Len(d.LeaseId) \notin 1..MaxLeaseLen, err |-> "Invalid Lease Id. Must be <= 32"]>>

Violated(d) == {i \in DOMAIN FieldChecks(d) : FieldChecks(d)[i].bad}

\* the descriptor the validator of t's Mount was given: the caller's, with
\* the client's account and the sector count of the enrichment
Validated(t) ==
    [ret[t].arg EXCEPT !.AccountName = c.storageAccountName,
                       !.AccountKey = c.storageAccountKey,
                       !.sectorCount = ret[t].d.sectorCount]

LeaseOps == {"Container.Exists", "Blob.Exists", "SetMetadata"}

\* C15: the validator checks type, name, sectorCount, accountName,
\* accountKey, path, host, leaseId, then resolves the host, then validates
\* the lease, and returns the error of the first check that fails: a Mount of
\* a descriptor that violates several field checks returns the error of the
\* earliest one, without a name resolution and without a store call of lease
\* validation; a Mount whose host resolution fails makes no store call of
\* lease validation.
C15_FirstViolation ==
    \A t \in Threads :
        (Done(t, "Mount") /\ ret[t].err # "open /dev/dysk") =>
            LET bad == Violated(Validated(t))
            IN  IF bad # {}
                THEN /\ \E i \in bad :
                            /\ \A j \in bad : i <= j
                            /\ ret[t].err = FieldChecks(Validated(t))[i].err
                     /\ Ops(t) = <<"open", "GetProperties", "close">>
                ELSE /\ ret[t].err \notin FieldErrors
                     /\ Ops(t)[3] = "LookupIP"
                     /\ \A i \in DOMAIN log[t] :
                           (log[t][i].op \in LeaseOps \/ (log[t][i].op = "GetProperties" /\ i > 2)) =>
                               /\ i > 3
                               /\ ret[t].err # "Failed to lookup ip for host"

C15_Witness ==
    \E t \in Threads :
        /\ Done(t, "Mount")
        /\ Cardinality(Violated(Validated(t))) >= 3
        /\ ret[t].arg.Name = <<"a", "/", "b">> /\ ret[t].arg.LeaseId = <<>>
        /\ ret[t].err = "Invalid name. Must not contain \\ / ."
        /\ Ops(t) = <<"open", "GetProperties", "close">>

(***************************************************************************)
(* C16                                                                     *)
(***************************************************************************)
LeaseSteps == <<"Container.Exists", "Blob.Exists", "GetProperties", "SetMetadata">>

\* the store calls of the lease validation of t's Mount: what follows the
\* host resolution, up to the command or the close
LeasePart(t) ==
    SelectSeq([i \in 1..(Len(log[t]) - 3) |-> log[t][i + 3]], LAMBDA e : e.op \in StoreOps)

\* C16: lease validation calls the store for the container's existence, the
\* object's existence and the object's properties under the leaseId, and
\* checks the page type, in that order, and ends with an error at the first
\* that fails; a ReadOnly descriptor causes no metadata write; a ReadWrite
\* descriptor causes a metadata write under the same leaseId after the type
\* check, and when that write fails the Mount fails and sends no MOUNT.
C16_LeaseSteps ==
    \A t \in Threads :
        (OpOf(t) = "Mount" /\ Len(log[t]) >= 3 /\ log[t][3].op = "LookupIP") =>
            LET part == LeasePart(t)
                n == Len(part)
                a == ArgOf(t)
                full == IF a.Type = ReadOnly THEN 3 ELSE 4
                sent == Cmds(t, IOCTLMOUNTDYSK) # <<>>
            IN  /\ n <= full
                /\ \A i \in 1..n : part[i].op = LeaseSteps[i]
                /\ \A i \in 1..n : i >= 3 => part[i].arg = a.LeaseId
                /\ sent => n = full
                /\ (pc[t] = "done" /\ n < full) => ret[t].err # "nil"
                /\ (pc[t] = "done" /\ n >= 3 /\ store.btype # BlobTypePage) =>
                       (n = 3 /\ ret[t].err \in {"store: GetProperties", "This blob is not a page blob"})
                /\ (pc[t] = "done" /\ ret[t].err = "store: SetMetadata") =>
                       (a.Type = ReadWrite /\ n = 4 /\ ~sent)

C16_Witness ==
    \E t \in Threads :
        /\ Done(t, "Mount") /\ ret[t].arg.Type = ReadWrite
        /\ ret[t].err = "store: SetMetadata"
        /\ Ops(t) = <<"open", "GetProperties", "LookupIP", "Container.Exists", "Blob.Exists",
                      "GetProperties", "SetMetadata", "close">>
        /\ log[t][7].arg = Lease1

(***************************************************************************)
(* C17                                                                     *)
(***************************************************************************)
ProvisionSteps == <<"CreateIfNotExists", "PutPageBlob", "WriteRange", "AcquireLease">>
ProvisionErrors ==
    <<"store: CreateIfNotExists", "store: PutPageBlob", "store: WriteRange", "store: AcquireLease">>

\* C17: CreatePageBlob ensures the container, creates the object, writes the
\* header and acquires the lease, in that order.  A step that fails ends it
\* with the error of that step and an empty lease token; no later step is
\* made and what the earlier steps did stays in the store (the container, the
\* object at its size, the header).  A lease token is returned only when all
\* four steps succeeded.
C17_ProvisionSteps ==
    \A t \in Threads :
        Done(t, "CreatePageBlob") =>
            LET n == Len(log[t])
                size == ret[t].arg.SizeGB * SectorsPerGB
            IN  /\ IsPrefix(Ops(t), ProvisionSteps)
                /\ (ret[t].lease # <<>>) <=> (ret[t].err = "nil")
                /\ ret[t].err = "nil" =>
                       (n = 4 /\ store.lease = ret[t].lease /\ store.header
                            /\ BlobExists(store, ContainerC, BlobB) /\ store.size = size)
                /\ ret[t].err # "nil" =>
                       /\ n = 0 => ret[t].err = "storage.NewBasicClient"
                       /\ n > 0 => ret[t].err = ProvisionErrors[n]
                       /\ n >= 2 => ContainerExists(store, ContainerC)
                       /\ n >= 3 => (BlobExists(store, ContainerC, BlobB) /\ store.size = size
                                        /\ store.lease = <<>>)
                       /\ n = 3 => ~store.header
                       /\ n = 4 => store.header

C17_Witness ==
    \E t \in Threads :
        /\ Done(t, "CreatePageBlob") /\ ret[t].arg.SizeGB = 1
        /\ ret[t].err = "store: WriteRange" /\ ret[t].lease = <<>>
        /\ Ops(t) = <<"CreateIfNotExists", "PutPageBlob", "WriteRange">>
        /\ BlobExists(store, ContainerC, BlobB) /\ store.size = SectorsPerGB
        /\ ~store.header /\ store.lease = <<>>

(***************************************************************************)
(* C18                                                                     *)
(***************************************************************************)
\* the caller's descriptor during and after t's Mount
Descriptor(t) == IF pc[t] = "done" THEN ret[t].d ELSE loc[t].d

\* C18: the major and minor of the caller's descriptor are changed only by
\* a Mount that returns success.  While a Mount runs, and when it has failed
\* (at the open, in the enrichment, in validation, by a low-level failure of
\* the command, by the driver's ERR, by a decode error) or was aborted, they
\* are what they were before the call; a Mount that succeeds leaves the
\* numbers of the driver's answer.
C18_DeviceNumbersFrame ==
    \A t \in Threads :
        OpOf(t) = "Mount" =>
            LET d == Descriptor(t)
                a == ArgOf(t)
                success == pc[t] = "done" /\ ret[t].err = "nil" /\ ~ret[t].panic
                answered == Cmds(t, IOCTLMOUNTDYSK) # <<>>
                             /\ Cmds(t, IOCTLMOUNTDYSK)[1].reply \in {"ok", "appended"}
            IN  /\ (pc[t] \notin {"ret", "done"} \/ ~answered) =>
                       (d.Major = a.Major /\ d.Minor = a.Minor)
                /\ (pc[t] = "done" /\ ~success) => (d.Major = a.Major /\ d.Minor = a.Minor)
                /\ success => answered

C18_Witness ==
    \E t \in Threads :
        /\ Done(t, "Mount") /\ ret[t].arg.Major = 8 /\ ret[t].arg.Minor = 16
        /\ ret[t].err = "ERR" /\ Len(Cmds(t, IOCTLMOUNTDYSK)) = 1
        /\ ret[t].d.Major = 8 /\ ret[t].d.Minor = 16

(***************************************************************************)
(* C19                                                                     *)
(***************************************************************************)
\* C19: whatever the driver leaves in the response buffer, Mount, Get and
\* List return a result or an error; parsing the response and decoding the
\* descriptor never abort the process.
C19_Totality ==
    \A t \in Threads :
        OpOf(t) \in {"Mount", "Get", "List"} => (~loc[t].panic /\ ~ret[t].panic)

(***************************************************************************)
(* C20                                                                     *)
(***************************************************************************)
\* t issued a command when c.f did not name an open file, or named a file
\* other than the one t opened
StaleCommand(t) ==
    \E i \in DOMAIN log[t] :
        /\ log[t][i].op = "ioctl"
        /\ log[t][i].h = NilFile \/ log[t][i].h # log[t][1].h

\* t has returned and the file it opened was not the file it closed
Leaked(t) ==
    /\ pc[t] = "done" /\ log[t] # <<>>
    /\ log[t][1].op = "open" /\ log[t][1].h # NilFile
    /\ log[t][Len(log[t])].h # log[t][1].h

\* C20: two operations that run concurrently on one client race for c.f:
\* the open of one overwrites the handle of the other, so that a command is
\* issued on a file the other operation has closed, or a file that was
\* opened is not closed by its operation.  No such state arises as long as
\* no operation opens the device while another is running.
C20_RaceNeedsOverlap ==
    ~raced =>
        /\ \A t \in Threads : ~StaleCommand(t) /\ ~Leaked(t)
        /\ Idle => \A h \in FileIds : files[h] # "open"

C20_Witness ==
    \E t \in Threads, u \in Threads :
        /\ raced /\ t # u
        /\ pc[u] = "done" /\ Len(log[u]) >= 2
        /\ log[u][1].op = "open" /\ log[u][Len(log[u])].op = "close"
        /\ log[u][1].h = c.f /\ log[u][Len(log[u])].h = c.f /\ files[c.f] = "closed"
        /\ pc[t] = "done" /\ StaleCommand(t) /\ Leaked(t)
        /\ log[t][1].h # c.f /\ files[log[t][1].h] = "open"
        /\ ret[t].err = "errno"
====
